---------------------------- MODULE Spec2Model ----------------------------
(***************************************************************************)
(* cauliflower: NAND flash controller firmware (MicroPython).              *)
(*                                                                         *)
(*   NandConfig          address packing           src/src/nand.py         *)
(*   NandBlockManager    bad/allocated bitmaps     src/src/nand.py         *)
(*   PageCodec           page encode/decode        src/src/nand.py         *)
(*   NandCommander (sim) file backed emulator      src/src/driver_sim.py   *)
(*   NandIo/NandCommander (rp2) GPIO bus driver    src/src/driver_rp2.py   *)
(*   FlashTranslationLayer                         src/src/main.py         *)
(*                                                                         *)
(* Bitmaps (Python ints used as bit sets) are modelled as sets of block    *)
(* numbers: bit b set  <=>  b \in set.  Byte arrays are sequences of       *)
(* bytes; page and sector sizes are scaled down.                           *)
(***************************************************************************)
EXTENDS Integers, Sequences, FiniteSets, TLC

VARIABLES
    \* ---- platform / environment
    driver,              \* "sim" | "rp2": what get_driver() selected
    chips,               \* number of chips answering READ ID with the expected id
    nand,                \* stored pages: [chip -> [block -> [page -> page bytes | NoPage]]]
    file,                \* nand_block_allocator.json: NoFile or the saved record
    sim_hist,            \* history: per page, the bytes the latest emulator
                         \* program_page / erase_block call sent to its file
    \* ---- NandBlockManager
    bm,                  \* "off" | "ready" | "failed" (constructor raised)
    num_chip,
    badblock_bitmaps,
    allocated_bitmaps,
    \* ---- FlashTranslationLayer
    l2p,
    write_buffer,
    write_buffer_lbas,
    current_write_chip,
    current_write_block,
    current_write_page,
    current_write_sector,
    ftl,                 \* "off" | "ready": FlashTranslationLayer constructed
    written,             \* history: payload of the latest write_logical call per LBA
    \* ---- last public call and what it returned / raised
    ret,
    \* ---- NandConfig address functions under test
    addr_pc,
    addr_args,
    addr_pba,
    addr_out,
    \* ---- rp2 bus driver pins and command layer
    bus,
    cmd_ret,
    wait,                \* NandIo.wait_busy in progress: pc, timeout_ms, elapsed
                         \* (ticks_diff(ticks_ms(), start)), rbb (the R/B# pin)
                         \* and result
    \* ---- PageCodec calls: the codec object, the payload, the codeword as
    \* stored (with the bits flipped in storage), what decode returned
    codec_pc,
    codec_impl,
    codec_flags,
    codec_in,
    codec_word,
    codec_flips,
    codec_out

envVars  == <<driver, chips, nand, file>>
bmVars   == <<bm, num_chip, badblock_bitmaps, allocated_bitmaps>>
ftlVars  == <<l2p, write_buffer, write_buffer_lbas, current_write_chip,
              current_write_block, current_write_page, current_write_sector,
              ftl, written>>
addrVars == <<addr_pc, addr_args, addr_pba, addr_out>>
cmdVars  == <<bus, cmd_ret, wait>>
codecVars == <<codec_pc, codec_impl, codec_flags, codec_in, codec_word,
               codec_flips, codec_out>>
vars     == <<envVars, bmVars, ftlVars, ret, addrVars, cmdVars, codecVars, sim_hist>>

\* Python's None where an int is expected
NONE == -1
\* no return value
NoValue == [kind |-> "none", val |-> NONE]

-----------------------------------------------------------------------------
(***************************************************************************)
(* NandConfig                                                              *)
(***************************************************************************)
MAX_CS == 2
\* 1024 in the source; the block manager is checked on a scaled-down chip
BLOCKS_PER_CS == 2
\* 64 in the source, scaled down
PAGES_PER_BLOCK == 2
\* 512 in the source, scaled down
SECTOR_BYTES == 1
\* PAGE_USABLE_BYTES // SECTOR_BYTES = 4 in the source, scaled down
SECTOR_PER_PAGE == 2
\* 128 in the source, scaled down
PAGE_SPARE_BYTES == 1
PAGE_USABLE_BYTES == SECTOR_PER_PAGE * SECTOR_BYTES
PAGE_ALL_BYTES == PAGE_USABLE_BYTES + PAGE_SPARE_BYTES

\* the bit widths of the packed PBA keep the source's values
SECTOR_BITS == 2
PAGE_BITS == 6
BLOCK_BITS == 10
CS_BITS == 1
SECTOR_MASK == 2^SECTOR_BITS - 1
PAGE_MASK == 2^PAGE_BITS - 1
BLOCK_MASK == 2^BLOCK_BITS - 1
CS_MASK == 2^CS_BITS - 1

\* Python's int operators on non-negative ints
RECURSIVE BitAnd(_, _)
BitAnd(a, b) ==
    IF a = 0 \/ b = 0 THEN 0
    ELSE (IF a % 2 = 1 /\ b % 2 = 1 THEN 1 ELSE 0) + 2 * BitAnd(a \div 2, b \div 2)

RECURSIVE BitOr(_, _)
BitOr(a, b) ==
    IF a = 0 THEN b
    ELSE IF b = 0 THEN a
    ELSE (IF a % 2 = 1 \/ b % 2 = 1 THEN 1 ELSE 0) + 2 * BitOr(a \div 2, b \div 2)

ShiftL(a, n) == a * 2^n
ShiftR(a, n) == a \div 2^n

encode_phys_addr(chip, block, page, sector) ==
    LET a1 == BitAnd(chip, CS_MASK)
        a2 == ShiftL(a1, CS_BITS)
        a3 == BitOr(a2, BitAnd(block, BLOCK_MASK))
        a4 == ShiftL(a3, BLOCK_BITS)
        a5 == BitOr(a4, BitAnd(page, PAGE_MASK))
        a6 == ShiftL(a5, PAGE_BITS)
    IN  BitOr(a6, BitAnd(sector, SECTOR_MASK))

decode_phys_addr(addr) ==
    LET sector == BitAnd(addr, SECTOR_MASK)
        a1     == ShiftR(addr, SECTOR_BITS)
        page   == BitAnd(a1, PAGE_MASK)
        a2     == ShiftR(a1, PAGE_BITS)
        block  == BitAnd(a2, BLOCK_MASK)
        a3     == ShiftR(a2, BLOCK_BITS)
        chip   == BitAnd(a3, CS_MASK)
    IN  <<chip, block, page, sector>>


Chips  == 0 .. MAX_CS - 1
Blocks == 0 .. BLOCKS_PER_CS - 1
Pages  == 0 .. PAGES_PER_BLOCK - 1

\* 0xFF, the erased byte; 0x00
FF == 255
READ_ID_EXPECT == <<152, 241, 128, 21, 114>>

\* n bytes of value b: bytearray([b] * n)
Fill(b, n) == [i \in 1 .. n |-> b]
\* data[lo:hi]
Slice(data, lo, hi) == SubSeq(data, lo + 1, hi)

\* a page nothing was stored in: a missing file of the emulator, an erased page
\* of the chip
NoPage == <<>>
NoFile == [present |-> FALSE]

-----------------------------------------------------------------------------
(***************************************************************************)
(* Command layer as the block manager and the FTL use it.  The emulator    *)
(* (driver_sim, built by get_driver with num_chip=1, ram_cache=False) is   *)
(* code; behind the rp2 command layer sits the chip, whose answers (ready  *)
(* or timeout, status byte, stored bytes) are inputs.                      *)
(***************************************************************************)
sim_num_chip == 1

\* NandBlockManager calls the command layer with the keyword cs_index=
\* (nand.py lines 234, 249, 349, 369, 375).  The rp2 NandCommander names that
\* parameter cs_index; the emulator's names it chip_index, so there each of
\* these calls raises TypeError (unexpected keyword argument) before it runs.
accepts_cs_index == driver = "rp2"

\* NandCommander._read_data: the file's bytes, all 0xFF when there is no file
sim_read_data(n, cs, block, page) ==
    IF n[cs][block][page] = NoPage THEN Fill(FF, PAGE_ALL_BYTES)
    ELSE n[cs][block][page]

\* variant: the write reaches every page of the block
sim_write_data_block(n, cs, block, page, data) ==
    [n EXCEPT ![cs][block] = [p \in Pages |-> data]]

\* NandCommander._write_data: the file is overwritten verbatim
sim_write_data(n, cs, block, page, data) ==
    [n EXCEPT ![cs][block][page] = data]

\* read_id(cs): the 5 id bytes
read_id(cs) ==
    IF driver = "sim"
    THEN IF cs < sim_num_chip THEN READ_ID_EXPECT ELSE Fill(0, 5)
    ELSE IF cs \in chips THEN READ_ID_EXPECT ELSE Fill(0, 5)

\* read_page(cs, block, page, col, num_bytes) -> [ok, data]; ok = FALSE is the
\* None of a wait_busy timeout (rp2 only).  The emulator ignores col and
\* num_bytes and returns the whole stored page.
read_page(n, cs, block, page, col, num_bytes, ready) ==
    IF driver = "sim"
    THEN [ok |-> TRUE, data |-> sim_read_data(n, cs, block, page)]
    ELSE IF ~ready THEN [ok |-> FALSE, data |-> <<>>]
    ELSE [ok   |-> TRUE,
          data |-> Slice(IF n[cs][block][page] = NoPage
                         THEN Fill(FF, PAGE_ALL_BYTES) ELSE n[cs][block][page],
                         col, col + num_bytes)]

\* erase_block(cs, block) -> [ok, nand].  Emulator: page 0 is rewritten with
\* 0xFF and the result is True.  rp2: False on a timeout or when the status
\* byte has PROGRAM_ERASE_FAIL set; a successful erase leaves the block erased.
erase_block(n, cs, block, erase_ok) ==
    IF driver = "sim"
    THEN [ok   |-> TRUE,
          nand |-> sim_write_data(n, cs, block, 0, Fill(FF, PAGE_ALL_BYTES))]
    ELSE IF erase_ok
         THEN [ok |-> TRUE, nand |-> [n EXCEPT ![cs][block] = [p \in Pages |-> NoPage]]]
         ELSE [ok |-> FALSE, nand |-> n]

\* program_page(cs, block, page, data) -> [ok, nand]
program_page(n, cs, block, page, data, program_ok) ==
    IF driver = "sim"
    THEN [ok |-> TRUE, nand |-> sim_write_data(n, cs, block, page, data)]
    ELSE IF program_ok
         THEN [ok |-> TRUE, nand |-> [n EXCEPT ![cs][block][page] = data]]
         ELSE [ok |-> FALSE, nand |-> n]

-----------------------------------------------------------------------------
(***************************************************************************)
(* NandBlockManager                                                        *)
(***************************************************************************)
\* the record save() writes and load() reads back
save_record(nc, bad, alloc) ==
    [present |-> TRUE, num_chip |-> nc, badblock_bitmaps |-> bad,
     allocated_bitmaps |-> alloc]

\* _check_chip_num: consecutive chips, from chip 0, whose id is the expected one
RECURSIVE check_chip_num(_, _)
check_chip_num(cs_index, n) ==
    IF cs_index >= 2 THEN n
    ELSE IF read_id(cs_index) # READ_ID_EXPECT THEN n
    ELSE check_chip_num(cs_index + 1, n + 1)

\* _check_allbadblocks looking at the last page of each block
RECURSIVE check_allbadblocks_last_page(_, _, _, _, _)
check_allbadblocks_last_page(n, cs_index, block, bitmap, tmo) ==
    IF block >= BLOCKS_PER_CS THEN [ok |-> TRUE, bitmap |-> bitmap]
    ELSE LET r == read_page(n, cs_index, block, PAGES_PER_BLOCK - 1, 0, 1,
                            tmo # <<cs_index, block>>)
         IN  IF ~r.ok THEN [ok |-> FALSE, bitmap |-> {}]
             ELSE check_allbadblocks_last_page(n, cs_index, block + 1,
                      IF r.data[1] # FF THEN bitmap \cup {block} ELSE bitmap, tmo)

\* _check_allbadblocks(cs): [ok, bitmap]; ok = FALSE is the None returned when a
\* page read fails.  tmo is the (chip, block) whose read times out, if any.
RECURSIVE check_allbadblocks(_, _, _, _, _)
check_allbadblocks(n, cs_index, block, bitmap, tmo) ==
    IF block >= BLOCKS_PER_CS THEN [ok |-> TRUE, bitmap |-> bitmap]
    ELSE LET r == read_page(n, cs_index, block, 0, 0, 1, tmo # <<cs_index, block>>)
         IN  IF ~r.ok THEN [ok |-> FALSE, bitmap |-> {}]
             ELSE check_allbadblocks(n, cs_index, block + 1,
                      IF r.data[1] # FF THEN bitmap \cup {block} ELSE bitmap, tmo)

\* the bad-block loop of init(): chips cs_index .. nc-1, appending to the list
RECURSIVE init_badblocks(_, _, _, _, _)
init_badblocks(n, nc, cs_index, bad, tmo) ==
    IF cs_index >= nc THEN [exc |-> "", bad |-> bad]
    ELSE IF cs_index < Len(bad) THEN init_badblocks(n, nc, cs_index + 1, bad, tmo)
    ELSE LET r == check_allbadblocks(n, cs_index, 0, {}, tmo)
         IN  IF ~r.ok THEN [exc |-> "BadBlock Check Error", bad |-> Append(bad, {})]
             ELSE init_badblocks(n, nc, cs_index + 1, Append(bad, r.bitmap), tmo)

\* init(): [exc, num_chip, bad, alloc]
init(n, nc0, bad0, tmo) ==
    LET nc == IF nc0 = 0 THEN check_chip_num(0, 0) ELSE nc0
    IN  IF ~accepts_cs_index /\ (nc0 = 0 \/ Len(bad0) < nc0)
        THEN [exc |-> "TypeError", num_chip |-> nc0, bad |-> bad0, alloc |-> <<>>]
        ELSE IF nc = 0
        THEN [exc |-> "No Active CS", num_chip |-> nc, bad |-> bad0, alloc |-> <<>>]
        ELSE LET r == init_badblocks(n, nc, 0, bad0, tmo)
             IN  IF r.exc # ""
                 THEN [exc |-> r.exc, num_chip |-> nc, bad |-> r.bad, alloc |-> <<>>]
                 ELSE [exc |-> "", num_chip |-> nc, bad |-> r.bad,
                       alloc |-> [c \in 1 .. nc |-> r.bad[c]]]

\* load() that takes the bad-block bitmaps for the allocated ones
load_forgetting_allocations(f) ==
    [num_chip |-> f.num_chip, bad |-> f.badblock_bitmaps,
     alloc |-> f.badblock_bitmaps]

\* load(): the three fields, as the file holds them
load(f) ==
    [num_chip |-> f.num_chip, bad |-> f.badblock_bitmaps,
     alloc |-> f.allocated_bitmaps]

\* save(): [exc, file]; save_ok: whether the file can be opened for writing
save(f, nc, bad, alloc, save_ok) ==
    IF save_ok THEN [exc |-> "", file |-> save_record(nc, bad, alloc)]
    ELSE [exc |-> "OSError", file |-> f]

\* __init__(nandcmd): load(), and on OSError init() then save().
\* load_ok / save_ok: whether the file system lets the file be opened.
\* Result: [exc, num_chip, bad, alloc, file]
construct(n, f, load_ok, save_ok, tmo) ==
    IF f.present /\ load_ok
    THEN LET l == load(f)
         IN  [exc |-> "", num_chip |-> l.num_chip, bad |-> l.bad,
              alloc |-> l.alloc, file |-> f]
    ELSE LET r == init(n, 0, <<>>, tmo)
         IN  IF r.exc # ""
             THEN [exc |-> r.exc, num_chip |-> r.num_chip, bad |-> r.bad,
                   alloc |-> r.alloc, file |-> f]
             ELSE LET w == save(f, r.num_chip, r.bad, r.alloc, save_ok)
                  IN  [exc |-> w.exc, num_chip |-> r.num_chip, bad |-> r.bad,
                       alloc |-> r.alloc, file |-> w.file]

\* _pick_free scanning chips and blocks downwards
pick_free_last(nc, alloc, bad) ==
    LET free == {cb \in (0 .. nc - 1) \X Blocks :
                    cb[2] \notin alloc[cb[1] + 1] /\ cb[2] \notin bad[cb[1] + 1]}
    IN  IF free = {} THEN [found |-> FALSE, cs |-> NONE, block |-> NONE]
        ELSE LET last == CHOOSE cb \in free :
                     \A o \in free : cb[1] > o[1] \/ (cb[1] = o[1] /\ cb[2] >= o[2])
             IN  [found |-> TRUE, cs |-> last[1], block |-> last[2]]

\* _pick_free testing the bad bit only
pick_free_ignoring_allocated(nc, alloc, bad) ==
    LET free == {cb \in (0 .. nc - 1) \X Blocks : cb[2] \notin bad[cb[1] + 1]}
    IN  IF free = {} THEN [found |-> FALSE, cs |-> NONE, block |-> NONE]
        ELSE LET first == CHOOSE cb \in free :
                     \A o \in free : cb[1] < o[1] \/ (cb[1] = o[1] /\ cb[2] <= o[2])
             IN  [found |-> TRUE, cs |-> first[1], block |-> first[2]]

\* _pick_free testing the allocated bit only
pick_free_ignoring_bad(nc, alloc, bad) ==
    LET free == {cb \in (0 .. nc - 1) \X Blocks : cb[2] \notin alloc[cb[1] + 1]}
    IN  IF free = {} THEN [found |-> FALSE, cs |-> NONE, block |-> NONE]
        ELSE LET first == CHOOSE cb \in free :
                     \A o \in free : cb[1] < o[1] \/ (cb[1] = o[1] /\ cb[2] <= o[2])
             IN  [found |-> TRUE, cs |-> first[1], block |-> first[2]]

\* _pick_free: the first (chip, block), chips then blocks ascending, that is
\* neither allocated nor bad; found = FALSE is (None, None)
pick_free(nc, alloc, bad) ==
    LET free == {cb \in (0 .. nc - 1) \X Blocks :
                    cb[2] \notin alloc[cb[1] + 1] /\ cb[2] \notin bad[cb[1] + 1]}
    IN  IF free = {} THEN [found |-> FALSE, cs |-> NONE, block |-> NONE]
        ELSE LET first == CHOOSE cb \in free :
                     \A o \in free : cb[1] < o[1] \/ (cb[1] = o[1] /\ cb[2] <= o[2])
             IN  [found |-> TRUE, cs |-> first[1], block |-> first[2]]

\* _mark_alloc -> [exc, alloc]
mark_alloc(alloc, cs_index, block) ==
    IF block \in alloc[cs_index + 1]
    THEN [exc |-> "Block Already Allocated", alloc |-> alloc]
    ELSE [exc |-> "", alloc |-> [alloc EXCEPT ![cs_index + 1] = @ \cup {block}]]

\* _mark_free that does not store the cleared bitmap
mark_free_keeping_bit(alloc, cs_index, block) ==
    IF block \notin alloc[cs_index + 1]
    THEN [exc |-> "Block Already Free", alloc |-> alloc]
    ELSE [exc |-> "", alloc |-> alloc]

\* _mark_free without its already-free check
mark_free_unchecked(alloc, cs_index, block) ==
    [exc |-> "", alloc |-> [alloc EXCEPT ![cs_index + 1] = @ \ {block}]]

\* _mark_free -> [exc, alloc]
mark_free(alloc, cs_index, block) ==
    IF block \notin alloc[cs_index + 1]
    THEN [exc |-> "Block Already Free", alloc |-> alloc]
    ELSE [exc |-> "", alloc |-> [alloc EXCEPT ![cs_index + 1] = @ \ {block}]]

\* _mark_bad that does not store the bitmap
mark_bad_unrecorded(bad, cs_index, block) == bad

\* _mark_bad -> bad
mark_bad(bad, cs_index, block) ==
    [bad EXCEPT ![cs_index + 1] = @ \cup {block}]

\* what alloc() hands back on success: the int `block`
alloc_result(cs, block) == [kind |-> "int", val |-> block]

\* alloc(): the while-True loop.  nfail: how many erases fail before one
\* succeeds (the chip's answers).  Result: [exc, value, cs, block, alloc, bad,
\* nand, erased]; cs/block: the block the loop ended on; erased: the blocks
\* whose erase was attempted, in order.
RECURSIVE alloc(_, _, _, _, _, _)
alloc(n, nc, al, bad, nfail, erased) ==
    LET p == pick_free(nc, al, bad)
    IN  IF ~p.found
        THEN [exc |-> "No Free Block", value |-> NoValue,
              cs |-> NONE, block |-> NONE, alloc |-> al, bad |-> bad, nand |-> n,
              erased |-> erased]
        ELSE IF ~accepts_cs_index
        THEN [exc |-> "TypeError", value |-> NoValue,
              cs |-> NONE, block |-> NONE, alloc |-> al, bad |-> bad, nand |-> n,
              erased |-> erased]
        ELSE LET e == erase_block(n, p.cs, p.block, nfail = 0)
                 tried == Append(erased, <<p.cs, p.block>>)
             IN  IF e.ok
                 THEN LET m == mark_alloc(al, p.cs, p.block)
                      IN  [exc |-> m.exc,
                           value |-> IF m.exc = "" THEN alloc_result(p.cs, p.block)
                                     ELSE NoValue,
                           cs |-> p.cs, block |-> p.block, alloc |-> m.alloc,
                           bad |-> bad, nand |-> e.nand, erased |-> tried]
                 ELSE alloc(e.nand, nc, al, mark_bad(bad, p.cs, p.block),
                            IF nfail > 0 THEN nfail - 1 ELSE 0, tried)

\* free(cs, block) -> [exc, alloc]
free(al, cs_index, block) == mark_free(al, cs_index, block)


\* read(cs, block, page) / program(cs, block, page, data): passthrough with
\* the keyword cs_index=; exc = "TypeError" on the emulator (ok is then FALSE:
\* nothing is returned).  A page outside the scaled-down geometry holds nothing.
read(n, cs_index, block, page, ready) ==
    IF ~accepts_cs_index THEN [ok |-> FALSE, data |-> <<>>, exc |-> "TypeError"]
    ELSE IF cs_index \in Chips /\ block \in Blocks /\ page \in Pages
    THEN [ok   |-> read_page(n, cs_index, block, page, 0, PAGE_ALL_BYTES, ready).ok,
          data |-> read_page(n, cs_index, block, page, 0, PAGE_ALL_BYTES, ready).data,
          exc  |-> ""]
    ELSE [ok |-> ready, data |-> Fill(FF, PAGE_ALL_BYTES), exc |-> ""]

program(n, cs_index, block, page, data, program_ok) ==
    IF ~accepts_cs_index THEN [ok |-> FALSE, nand |-> n, exc |-> "TypeError"]
    ELSE [ok   |-> program_page(n, cs_index, block, page, data, program_ok).ok,
          nand |-> program_page(n, cs_index, block, page, data, program_ok).nand,
          exc  |-> ""]

-----------------------------------------------------------------------------
(***************************************************************************)
(* PageCodec (scramble, ecc and crc are TODO in the source)                *)
(***************************************************************************)
\* encode: the payload followed by PAGE_SPARE_BYTES zero bytes
encode_spare_first(data) == Fill(0, PAGE_SPARE_BYTES) \o data

encode(data) == data \o Fill(0, PAGE_SPARE_BYTES)

\* decode: the first PAGE_USABLE_BYTES bytes; never None
decode(data) == [ok |-> TRUE, data |-> Slice(data, 0, PAGE_USABLE_BYTES)]

\* The PageCodec of the single-file draft src/main.py: both directions XOR the
\* page with the byte stream of a fresh Lfsr8(seed); no spare bytes, never None.
RECURSIVE BitXor(_, _)
BitXor(a, b) ==
    IF a = 0 THEN b
    ELSE IF b = 0 THEN a
    ELSE (IF a % 2 # b % 2 THEN 1 ELSE 0) + 2 * BitXor(a \div 2, b \div 2)

scramble_seed == 165
Lfsr8_init_value == 1

\* Lfsr8.next(): the new _current, which is also returned
Lfsr8_next(current, seed) ==
    BitAnd(BitXor(ShiftR(current, 1), IF current % 2 = 1 THEN seed ELSE 0), 255)

\* bytearray([lfsr.next() ^ x for x in data]), lfsr in state current
RECURSIVE lfsr_xor(_, _, _)
lfsr_xor(current, seed, data) ==
    IF data = <<>> THEN <<>>
    ELSE LET n == Lfsr8_next(current, seed)
         IN  <<BitXor(n, Head(data))>> \o lfsr_xor(n, seed, Tail(data))

draft_encode(data) == lfsr_xor(Lfsr8_init_value, scramble_seed, data)
draft_decode(data) ==
    [ok |-> TRUE, data |-> lfsr_xor(Lfsr8_init_value, scramble_seed, data)]

-----------------------------------------------------------------------------
(***************************************************************************)
(* FlashTranslationLayer                                                   *)
(***************************************************************************)
\* FlashTranslationLayer.read_page -> [ok, data].  The TypeError of blockmng.read
\* and blockmng.program on the emulator is not carried further: there the FTL's
\* constructor has already raised it, so no FTL call is ever made.
ftl_read_page(n, cs_index, block, page, ready) ==
    LET page_data == read(n, cs_index, block, page, ready)
    IN  IF ~page_data.ok THEN [ok |-> FALSE, data |-> <<>>]
        ELSE LET d == decode(page_data.data)
             IN  IF ~d.ok THEN [ok |-> FALSE, data |-> <<>>] ELSE d

\* read_sector -> [ok, data]
read_sector(n, cs_index, block, page, sector, ready) ==
    LET page_data == ftl_read_page(n, cs_index, block, page, ready)
    IN  IF ~page_data.ok THEN page_data
        ELSE [ok |-> TRUE,
              data |-> Slice(page_data.data, sector * SECTOR_BYTES,
                             (sector + 1) * SECTOR_BYTES)]

\* write_page -> [ok, nand]
write_page(n, cs_index, block, page, data, program_ok) ==
    program(n, cs_index, block, page, encode(data), program_ok)

\* variant: an unmapped sector reads as erased flash
unmap_sector_erased == Fill(FF, SECTOR_BYTES)

unmap_sector == Fill(0, SECTOR_BYTES)

\* list.index(x): position (from 0) of the first element equal to x
Index(list, x) == (CHOOSE i \in 1 .. Len(list) :
                      list[i] = x /\ \A j \in 1 .. i - 1 : list[j] # x) - 1

\* a, b = value: possible only for a 2-sequence
can_unpack2(value) == value.kind = "tuple"

\* the FTL's fields together with what it reaches through blockmng
FtlState ==
    [l2p |-> l2p, write_buffer |-> write_buffer, write_buffer_lbas |-> write_buffer_lbas,
     chip |-> current_write_chip, block |-> current_write_block,
     page |-> current_write_page, sector |-> current_write_sector,
     alloc |-> allocated_bitmaps, bad |-> badblock_bitmaps, nand |-> nand,
     exc |-> "", result |-> TRUE, value |-> NoValue, acs |-> NONE, ablock |-> NONE,
     programmed |-> <<>>]

\* read_logical(lba) -> sector bytes
read_logical(st, lba, ready) ==
    IF \E i \in 1 .. Len(st.write_buffer_lbas) : st.write_buffer_lbas[i] = lba
    THEN LET sector_index == Index(st.write_buffer_lbas, lba)
         IN  Slice(st.write_buffer, sector_index * SECTOR_BYTES,
                   (sector_index + 1) * SECTOR_BYTES)
    ELSE LET pba == st.l2p[lba]
         IN  IF pba = NONE THEN unmap_sector
             ELSE LET a == decode_phys_addr(pba)
                      sector_data == read_sector(st.nand, a[1], a[2], a[3], a[4], ready)
                  IN  IF ~sector_data.ok THEN unmap_sector ELSE sector_data.data

\* the tuple assignment of line 158: `a` is what alloc() did and returned
wl_unpack(st, a) ==
    IF a.exc # ""
    THEN [st EXCEPT !.exc = a.exc, !.alloc = a.alloc, !.bad = a.bad, !.nand = a.nand,
                    !.value = a.value, !.acs = a.cs, !.ablock = a.block]
    ELSE IF ~can_unpack2(a.value)
    THEN [st EXCEPT !.exc = "TypeError", !.alloc = a.alloc, !.bad = a.bad,
                    !.nand = a.nand, !.value = a.value, !.acs = a.cs,
                    !.ablock = a.block]
    ELSE [st EXCEPT !.exc = "", !.alloc = a.alloc, !.bad = a.bad, !.nand = a.nand,
                    !.value = a.value, !.acs = a.cs, !.ablock = a.block,
                    !.chip = a.value.val[1], !.block = a.value.val[2],
                    !.page = 0, !.sector = 0, !.write_buffer_lbas = <<>>]

\* write_logical, lines 152-161: with no cursor, alloc() and unpack its result
\* into the cursor.  exc: what was raised; value/acs/ablock: what alloc
\* returned and the block it took.
wl_cursor(st, nfail) ==
    IF st.chip # NONE /\ st.block # NONE /\ st.page # NONE /\ st.sector # NONE
    THEN st
    ELSE wl_unpack(st, alloc(st.nand, num_chip, st.alloc, st.bad, nfail, <<>>))

\* write_logical, lines 162-178: map the LBA to the cursor's PBA, copy the
\* sector into the write buffer, append the LBA
wl_buffer(st, lba, data) ==
    [st EXCEPT
       !.l2p[lba] = encode_phys_addr(st.chip, st.block, st.page, st.sector),
       !.write_buffer =
           SubSeq(@, 1, st.sector * SECTOR_BYTES) \o data
             \o SubSeq(@, (st.sector + 1) * SECTOR_BYTES + 1, Len(@)),
       !.write_buffer_lbas = Append(@, lba)]

\* write_logical, lines 204-209: the cursor is cleared after the last page
wl_next_page(st) ==
    IF st.page >= PAGES_PER_BLOCK
    THEN [st EXCEPT !.chip = NONE, !.block = NONE, !.page = NONE, !.sector = NONE]
    ELSE st

\* write_logical, lines 183-211: advance the sector, or program the buffer
\* (w: write_page's result), clear the LBA list and advance the page
wl_advance(st, w) ==
    IF Len(st.write_buffer_lbas) < SECTOR_PER_PAGE
    THEN [st EXCEPT !.sector = @ + 1, !.result = TRUE]
    ELSE wl_next_page(
           [st EXCEPT !.nand = w.nand, !.write_buffer_lbas = <<>>,
                      !.sector = 0, !.page = @ + 1, !.result = w.ok,
                      !.programmed = <<<<st.chip, st.block, st.page>>>>])

wl_flush(st, program_ok) ==
    wl_advance(st, IF Len(st.write_buffer_lbas) < SECTOR_PER_PAGE
                   THEN [ok |-> TRUE, nand |-> st.nand]
                   ELSE write_page(st.nand, st.chip, st.block, st.page,
                                   st.write_buffer, program_ok))

\* the rest of write_logical once the cursor is set; nothing of it runs when
\* line 158 raised
wl_rest(st, lba, data, program_ok) ==
    IF st.exc # "" THEN st
    ELSE wl_flush(wl_buffer(st, lba, data), program_ok)

\* write_logical(lba, data): the state after the call, with exc (what it
\* raised), result (what it returned), value/acs/ablock (what alloc returned and
\* the block alloc took, when alloc ran) and programmed (the pages programmed)
write_logical(st, lba, data, nfail, program_ok) ==
    wl_rest(wl_cursor(st, nfail), lba, data, program_ok)

-----------------------------------------------------------------------------
(***************************************************************************)
(* Bounds of the checked instances                                         *)
(***************************************************************************)
\* blocks carrying the vendor's bad-block marker when the chip is new
MaxFactoryBad == 1
\* distinct payload byte values callers write
MaxData == 1
\* logical block addresses callers use: 0 .. MaxLba
MaxLba == 1
\* pages that hold data at the same time (emulator: pages it keeps a file for)
MaxProgrammedPages == 2

DataBytes == 1 .. MaxData
LBAs == 0 .. MaxLba

\* page 0 of a block the vendor marked bad: first byte is not 0xFF
MarkerPage == Fill(0, PAGE_ALL_BYTES)

-----------------------------------------------------------------------------
(***************************************************************************)
(* State                                                                   *)
(***************************************************************************)
\* the last public call: what was called, what it raised ("" = returned),
\* what it returned, and the facts about the state it was called in that the
\* properties below refer to.  before: allocated_bitmaps when alloc was called;
\* undoes: the free call frees the block the alloc call just before it returned
\* (before is then that alloc's); programmed: the pages write_logical programmed;
\* mapped: read_logical found the LBA in the mapping (ok is then whether
\* read_sector returned a sector); scan_failed: the (chip, block) whose page
\* read failed during the constructor's bad-block scan, if one did;
\* again: the write_logical call follows a write_logical call for the same LBA
\* and neither flushed the write buffer; rewritten: the read_logical call
\* follows such a pair of write_logical calls for its LBA
NoRet == [op |-> "", exc |-> "", cs |-> NONE, block |-> NONE, page |-> NONE,
          lba |-> NONE, value |-> NoValue, data |-> <<>>, ok |-> TRUE,
          was_alloc |-> FALSE, was_bad |-> FALSE, changed |-> FALSE,
          erased |-> <<>>, loaded |-> FALSE, before |-> <<>>, undoes |-> FALSE,
          programmed |-> <<>>, mapped |-> FALSE, scan_failed |-> <<NONE, NONE>>,
          again |-> FALSE, rewritten |-> FALSE, fresh |-> FALSE,
          before_off |-> <<>>]

InitEnv(drv) ==
    /\ driver = drv
    /\ IF drv = "sim"
       THEN /\ chips = 0 .. sim_num_chip - 1
            /\ nand = [c \in Chips |-> [b \in Blocks |-> [p \in Pages |-> NoPage]]]
       ELSE /\ chips \in SUBSET Chips
            /\ \E fb \in SUBSET (chips \X Blocks) :
                 /\ Cardinality(fb) <= MaxFactoryBad
                 /\ nand = [c \in Chips |-> [b \in Blocks |-> [p \in Pages |->
                              IF p = 0 /\ <<c, b>> \in fb THEN MarkerPage ELSE NoPage]]]
    /\ file = NoFile
    /\ sim_hist = [a \in Chips \X Blocks \X Pages |-> <<>>]

InitBm ==
    /\ bm = "off"
    /\ num_chip = 0
    /\ badblock_bitmaps = <<>>
    /\ allocated_bitmaps = <<>>

InitFtl ==
    /\ ftl = "off"
    /\ l2p = [lba \in LBAs |-> NONE]
    /\ write_buffer = Fill(0, PAGE_USABLE_BYTES)
    /\ write_buffer_lbas = <<>>
    /\ current_write_chip = NONE
    /\ current_write_block = NONE
    /\ current_write_page = NONE
    /\ current_write_sector = NONE
    /\ written = [lba \in LBAs |-> <<>>]

InitAddr ==
    /\ addr_pc = "off"
    /\ addr_args = <<0, 0, 0, 0>>
    /\ addr_pba = 0
    /\ addr_out = <<0, 0, 0, 0>>

InitCmd ==
    /\ bus = [on |-> FALSE]
    /\ cmd_ret = [op |-> ""]
    /\ wait = [pc |-> "idle", timeout_ms |-> 0, elapsed |-> 0, rbb |-> 1,
               result |-> TRUE]

InitCodec ==
    /\ codec_pc = "off"
    /\ codec_impl = ""
    /\ codec_flags = <<TRUE, TRUE, TRUE>>
    /\ codec_in = <<>>
    /\ codec_word = <<>>
    /\ codec_flips = {}
    /\ codec_out = [ok |-> TRUE, data |-> <<>>]

-----------------------------------------------------------------------------
(***************************************************************************)
(* Block manager calls                                                     *)
(***************************************************************************)
\* What the environment can answer a call with.  Answers no code path of the
\* call looks at are not enumerated.
\* open(filepath, "r"): fails when there is no file, may fail when there is one
LoadAnswers == IF file.present THEN BOOLEAN ELSE {FALSE}
\* the page read of the bad-block scan that times out, if any (rp2)
ScanTimeouts == {<<NONE, NONE>>} \cup (IF driver = "rp2" THEN chips \X Blocks ELSE {})
\* how many erases fail before one succeeds (rp2): at most one per free block
FreeBlocks == {cb \in (0 .. num_chip - 1) \X Blocks :
                  cb[2] \notin allocated_bitmaps[cb[1] + 1]
                  /\ cb[2] \notin badblock_bitmaps[cb[1] + 1]}
EraseFailures == 0 .. (IF driver = "rp2" THEN Cardinality(FreeBlocks) ELSE 0)
\* whether the chip completes a program / a page read (rp2)
ChipAnswers == IF driver = "rp2" THEN BOOLEAN ELSE {TRUE}

\* NandBlockManager(nandcmd)
Construct ==
    /\ bm = "off"
    /\ \E load_ok \in LoadAnswers, save_ok \in BOOLEAN, tmo \in ScanTimeouts :
         LET r == construct(nand, file, load_ok, save_ok, tmo)
         IN  /\ bm' = IF r.exc = "" THEN "ready" ELSE "failed"
             /\ num_chip' = r.num_chip
             /\ badblock_bitmaps' = r.bad
             /\ allocated_bitmaps' = r.alloc
             /\ file' = r.file
             /\ ret' = [NoRet EXCEPT !.op = "init", !.exc = r.exc,
                           !.loaded = (file.present /\ load_ok),
                           !.scan_failed =
                               IF ~(file.present /\ load_ok) /\ accepts_cs_index
                                  /\ tmo[1] # NONE /\ tmo[1] < r.num_chip
                               THEN tmo ELSE <<NONE, NONE>>]
    /\ UNCHANGED <<driver, chips, nand, ftlVars, addrVars, cmdVars, codecVars, sim_hist>>

\* blockmng.save()
Save ==
    /\ bm = "ready"
    /\ \E save_ok \in BOOLEAN :
         LET r == save(file, num_chip, badblock_bitmaps, allocated_bitmaps, save_ok)
         IN  /\ file' = r.file
             /\ ret' = [NoRet EXCEPT !.op = "save", !.exc = r.exc]
    /\ UNCHANGED <<driver, chips, nand, bmVars, ftlVars, addrVars, cmdVars, codecVars, sim_hist>>

\* blockmng.alloc()
Alloc ==
    /\ bm = "ready"
    /\ \E nfail \in EraseFailures :
         LET r == alloc(nand, num_chip, allocated_bitmaps, badblock_bitmaps, nfail, <<>>)
         IN  /\ allocated_bitmaps' = r.alloc
             /\ badblock_bitmaps' = r.bad
             /\ nand' = r.nand
             /\ ret' = [NoRet EXCEPT !.op = "alloc", !.exc = r.exc, !.cs = r.cs,
                           !.block = r.block, !.value = r.value,
                           !.changed = (r.alloc # allocated_bitmaps
                                        \/ r.bad # badblock_bitmaps),
                           !.erased = r.erased, !.before = allocated_bitmaps]
    /\ UNCHANGED <<driver, chips, file, bm, num_chip, ftlVars, addrVars, cmdVars, codecVars, sim_hist>>

\* blockmng.free(cs_index, block)
Free ==
    /\ bm = "ready"
    /\ \E cs \in 0 .. num_chip - 1, block \in Blocks :
         LET r == free(allocated_bitmaps, cs, block)
             undoes == ret.op = "alloc" /\ ret.exc = "" /\ ret.cs = cs
                       /\ ret.block = block
         IN  /\ allocated_bitmaps' = r.alloc
             /\ ret' = [NoRet EXCEPT !.op = "free", !.exc = r.exc, !.cs = cs,
                           !.block = block, !.undoes = undoes,
                           !.before = IF undoes THEN ret.before ELSE <<>>,
                           !.was_alloc = (block \in allocated_bitmaps[cs + 1]),
                           !.was_bad = (block \in badblock_bitmaps[cs + 1]),
                           !.changed = (r.alloc # allocated_bitmaps)]
    /\ UNCHANGED <<envVars, bm, num_chip, badblock_bitmaps, ftlVars, addrVars, cmdVars, codecVars, sim_hist>>

\* the process ends: the objects are gone, the flash and the file stay
PowerOff ==
    /\ bm \in {"ready", "failed"}
    /\ ftl = "off"
    /\ bm' = "off"
    /\ num_chip' = 0
    /\ badblock_bitmaps' = <<>>
    /\ allocated_bitmaps' = <<>>
    /\ ret' = [NoRet EXCEPT !.op = "power_off"]
    /\ UNCHANGED <<envVars, ftlVars, addrVars, cmdVars, codecVars, sim_hist>>

Init ==
    /\ \E drv \in {"sim", "rp2"} : InitEnv(drv)
    /\ InitBm /\ InitFtl /\ InitAddr /\ InitCmd /\ InitCodec
    /\ ret = NoRet

Next == Construct \/ Alloc \/ Free \/ PowerOff

Spec == Init /\ [][Next]_vars

\* the same calls with save() called from outside __init__ as well
NextPersist == Construct \/ Save \/ Alloc \/ Free \/ PowerOff

SpecPersist == Init /\ [][NextPersist]_vars


-----------------------------------------------------------------------------
(***************************************************************************)
(* The emulator's command layer (driver_sim.NandCommander) called directly, *)
(* as test_readid does.  The host file system is taken to work: the        *)
(* OSError branches of _read_data / _write_data only log.                  *)
(***************************************************************************)
\* the pages holding data (on the emulator: the pages it holds a file for)
ProgrammedPages ==
    {cbp \in Chips \X Blocks \X Pages : nand[cbp[1]][cbp[2]][cbp[3]] # NoPage}

\* _data_path: ValueError for a chip the emulator was not built with
sim_data_path(chip_index) ==
    IF chip_index >= sim_num_chip THEN "ValueError" ELSE ""

\* nandcmd.erase_block(chip_index, block); like program_page, creates no file
\* beyond MaxProgrammedPages
SimEraseBlock ==
    /\ \E cs \in Chips, block \in Blocks :
         LET exc == sim_data_path(cs)
             r == erase_block(nand, cs, block, TRUE)
         IN  /\ (exc = "" /\ nand[cs][block][0] = NoPage)
                  => Cardinality(ProgrammedPages) < MaxProgrammedPages
             /\ nand' = IF exc = "" THEN r.nand ELSE nand
             /\ sim_hist' = IF exc = ""
                            THEN [sim_hist EXCEPT ![<<cs, block, 0>>] =
                                                     Fill(FF, PAGE_ALL_BYTES)]
                            ELSE sim_hist
             /\ ret' = [NoRet EXCEPT !.op = "erase_block", !.exc = exc, !.cs = cs,
                           !.block = block, !.ok = (exc = "" /\ r.ok)]
    /\ UNCHANGED <<driver, chips, file, bmVars, ftlVars, addrVars, cmdVars, codecVars>>

\* nandcmd.program_page(chip_index, block, page, data); at most
\* MaxProgrammedPages pages have a file at a time
SimProgramPage ==
    /\ \E cs \in Chips, block \in Blocks, page \in Pages, d \in DataBytes \cup {FF} :
         /\ (sim_data_path(cs) = "" /\ nand[cs][block][page] = NoPage)
              => Cardinality(ProgrammedPages) < MaxProgrammedPages
         /\ LET exc == sim_data_path(cs)
                data == Fill(d, PAGE_ALL_BYTES)
                r == program_page(nand, cs, block, page, data, TRUE)
            IN  /\ nand' = IF exc = "" THEN r.nand ELSE nand
                /\ sim_hist' = IF exc = ""
                               THEN [sim_hist EXCEPT ![<<cs, block, page>>] = data]
                               ELSE sim_hist
                /\ ret' = [NoRet EXCEPT !.op = "program_page", !.exc = exc,
                              !.cs = cs, !.block = block, !.page = page,
                              !.ok = (exc = "" /\ r.ok), !.data = data]
    /\ UNCHANGED <<driver, chips, file, bmVars, ftlVars, addrVars, cmdVars, codecVars>>

\* nandcmd.read_page(chip_index, block, page)
SimReadPage ==
    /\ \E cs \in Chips, block \in Blocks, page \in Pages :
         LET exc == sim_data_path(cs)
             r == read_page(nand, cs, block, page, 0, PAGE_ALL_BYTES, TRUE)
         IN  ret' = [NoRet EXCEPT !.op = "read_page", !.exc = exc, !.cs = cs,
                        !.block = block, !.page = page,
                        !.ok = (exc = "" /\ r.ok),
                        !.data = IF exc = "" THEN r.data ELSE <<>>]
    /\ UNCHANGED <<envVars, bmVars, ftlVars, addrVars, cmdVars, codecVars, sim_hist>>

InitSim ==
    /\ InitEnv("sim")
    /\ InitBm /\ InitFtl /\ InitAddr /\ InitCmd /\ InitCodec
    /\ ret = NoRet

NextSim == SimEraseBlock \/ SimProgramPage \/ SimReadPage

SpecSim == InitSim /\ [][NextSim]_vars

-----------------------------------------------------------------------------
(***************************************************************************)
(* FTL calls                                                               *)
(***************************************************************************)
\* FlashTranslationLayer(): get_driver, NandBlockManager(nandcmd), PageCodec,
\* Mapping, the zeroed write buffer and the undefined cursor
FtlInit ==
    /\ ftl = "off" /\ bm = "off"
    /\ \E load_ok \in LoadAnswers, save_ok \in BOOLEAN, tmo \in ScanTimeouts :
         LET r == construct(nand, file, load_ok, save_ok, tmo)
         IN  /\ bm' = IF r.exc = "" THEN "ready" ELSE "failed"
             /\ ftl' = IF r.exc = "" THEN "ready" ELSE "off"
             /\ num_chip' = r.num_chip
             /\ badblock_bitmaps' = r.bad
             /\ allocated_bitmaps' = r.alloc
             /\ file' = r.file
             /\ ret' = [NoRet EXCEPT !.op = "ftl_init", !.exc = r.exc,
                           !.loaded = (file.present /\ load_ok),
                           !.before_off = ret.before_off]
    /\ UNCHANGED <<driver, chips, nand, l2p, write_buffer, write_buffer_lbas,
                   current_write_chip, current_write_block, current_write_page,
                   current_write_sector, written, addrVars, cmdVars, codecVars,
                   sim_hist>>

CursorDefined ==
    current_write_chip # NONE /\ current_write_block # NONE
    /\ current_write_page # NONE /\ current_write_sector # NONE
\* the call fills the buffer and programs it
WillFlush == (IF CursorDefined THEN Len(write_buffer_lbas) ELSE 0) + 1 >= SECTOR_PER_PAGE
\* read_logical(lba) gets as far as the page read
ReadsFlash(lba) ==
    /\ \A i \in 1 .. Len(write_buffer_lbas) : write_buffer_lbas[i] # lba
    /\ l2p[lba] # NONE

\* ftl.write_logical(lba, data)
WriteLogical ==
    /\ ftl = "ready"
    /\ \E lba \in LBAs, d \in DataBytes,
          nfail \in (IF CursorDefined THEN {0} ELSE EraseFailures),
          program_ok \in (IF WillFlush THEN ChipAnswers ELSE {TRUE}) :
         LET data == Fill(d, SECTOR_BYTES)
             r == write_logical(FtlState, lba, data, nfail, program_ok)
         IN  /\ l2p' = r.l2p
             /\ write_buffer' = r.write_buffer
             /\ write_buffer_lbas' = r.write_buffer_lbas
             /\ current_write_chip' = r.chip
             /\ current_write_block' = r.block
             /\ current_write_page' = r.page
             /\ current_write_sector' = r.sector
             /\ allocated_bitmaps' = r.alloc
             /\ badblock_bitmaps' = r.bad
             /\ nand' = r.nand
             /\ written' = [written EXCEPT ![lba] = data]
             /\ ret' = [NoRet EXCEPT !.op = "write_logical", !.exc = r.exc,
                           !.lba = lba, !.data = data, !.ok = r.result,
                           !.value = r.value, !.cs = r.acs, !.block = r.ablock,
                           !.programmed = r.programmed,
                           !.again = (/\ ret.op = "write_logical" /\ ret.lba = lba
                                      /\ ret.programmed = <<>>
                                      /\ r.programmed = <<>>)]
    /\ UNCHANGED <<driver, chips, file, bm, num_chip, ftl, addrVars, cmdVars, codecVars, sim_hist>>

\* ftl.read_logical(lba)
ReadLogical ==
    /\ ftl = "ready"
    /\ \E lba \in LBAs :
        \E ready \in (IF ReadsFlash(lba) THEN ChipAnswers ELSE {TRUE}) :
         LET a == decode_phys_addr(l2p[lba])
         IN  ret' = [NoRet EXCEPT !.op = "read_logical", !.lba = lba,
                        !.data = read_logical(FtlState, lba, ready),
                        !.mapped = ReadsFlash(lba),
                        !.rewritten = (/\ ret.op = "write_logical" /\ ret.lba = lba
                                       /\ ret.again),
                        !.ok = (ReadsFlash(lba) =>
                                  read_sector(nand, a[1], a[2], a[3], a[4], ready).ok)]
    /\ UNCHANGED <<envVars, bmVars, ftlVars, addrVars, cmdVars, codecVars, sim_hist>>

NextFtl == FtlInit \/ WriteLogical \/ ReadLogical

SpecFtl == Init /\ [][NextFtl]_vars

\* Reads through the FTL of LBAs mapped with its Mapping object directly.
\* MaxMapped: LBAs mapped at a time through Mapping.update
MaxMapped == 1
\* the PBAs decode_phys_addr takes to a sector of the geometry
MapPbas ==
    {ShiftL(ShiftL(ShiftL(c, BLOCK_BITS) + b, PAGE_BITS) + p, SECTOR_BITS) + s :
        c \in chips, b \in Blocks, p \in Pages, s \in 0 .. SECTOR_PER_PAGE - 1}

\* ftl.mapping.update(lba, pba)
MapUpdate ==
    /\ ftl = "ready"
    /\ \E lba \in LBAs, pba \in MapPbas :
         /\ l2p[lba] = NONE => Cardinality({l \in LBAs : l2p[l] # NONE}) < MaxMapped
         /\ l2p' = [l2p EXCEPT ![lba] = pba]
         /\ ret' = [NoRet EXCEPT !.op = "map_update", !.lba = lba]
    /\ UNCHANGED <<envVars, bmVars, write_buffer, write_buffer_lbas,
                   current_write_chip, current_write_block, current_write_page,
                   current_write_sector, ftl, written, addrVars, cmdVars, codecVars,
                   sim_hist>>

NextMap == FtlInit \/ ReadLogical \/ MapUpdate

SpecMap == Init /\ [][NextMap]_vars

-----------------------------------------------------------------------------
(***************************************************************************)
(* The FTL's physical page write across a restart: write_page on a block   *)
(* that alloc handed out, the end of the process, and the next             *)
(* FlashTranslationLayer(), which scans the flash when it cannot load the  *)
(* allocator file.                                                         *)
(***************************************************************************)
\* ftl.write_page(cs_index, block, page, data) on a block of blockmng.alloc();
\* data is a page of user bytes, 0xFF included.  ret.fresh: the call follows
\* the alloc that erased and returned the block.
FtlWritePage ==
    /\ ftl = "ready"
    /\ \E cs \in 0 .. num_chip - 1, block \in Blocks, page \in Pages,
          d \in DataBytes \cup {FF}, program_ok \in ChipAnswers :
         /\ block \in allocated_bitmaps[cs + 1]
         /\ block \notin badblock_bitmaps[cs + 1]
         /\ nand[cs][block][page] = NoPage =>
                Cardinality(ProgrammedPages) < MaxProgrammedPages
         /\ LET data == Fill(d, PAGE_USABLE_BYTES)
                r == write_page(nand, cs, block, page, data, program_ok)
            IN  /\ nand' = r.nand
                /\ ret' = [NoRet EXCEPT !.op = "write_page", !.cs = cs,
                              !.block = block, !.page = page, !.data = data,
                              !.ok = r.ok,
                              !.fresh = (/\ ret.op = "alloc" /\ ret.exc = ""
                                         /\ ret.cs = cs /\ ret.block = block),
                              !.programmed = IF r.ok THEN <<cs, block, page>>
                                             ELSE <<>>]
    /\ UNCHANGED <<driver, chips, file, bmVars, ftlVars, addrVars, cmdVars, codecVars,
                   sim_hist>>

\* the process ends: the FTL and its block manager are gone, the flash and the
\* file stay.  ret.before_off keeps the page the FTL programmed in its last call,
\* when that call followed the alloc that erased and returned the page's block.
FtlPowerOff ==
    /\ ftl = "ready"
    /\ ftl' = "off"
    /\ bm' = "off"
    /\ num_chip' = 0
    /\ badblock_bitmaps' = <<>>
    /\ allocated_bitmaps' = <<>>
    /\ l2p' = [lba \in LBAs |-> NONE]
    /\ write_buffer' = Fill(0, PAGE_USABLE_BYTES)
    /\ write_buffer_lbas' = <<>>
    /\ current_write_chip' = NONE
    /\ current_write_block' = NONE
    /\ current_write_page' = NONE
    /\ current_write_sector' = NONE
    /\ ret' = [NoRet EXCEPT !.op = "power_off",
                  !.before_off = IF ret.op = "write_page" /\ ret.fresh
                                 THEN ret.programmed
                                 ELSE <<>>]
    /\ UNCHANGED <<envVars, written, addrVars, cmdVars, codecVars, sim_hist>>

NextScan == FtlInit \/ Alloc \/ FtlWritePage \/ FtlPowerOff

SpecScan == Init /\ [][NextScan]_vars

-----------------------------------------------------------------------------
(***************************************************************************)
(* NandConfig.encode_phys_addr / decode_phys_addr on their own             *)
(***************************************************************************)
\* largest block and page number tried
MaxAddrBlock == 7
MaxAddrPage == 7

InitAddrCall ==
    /\ InitEnv("sim")
    /\ InitBm /\ InitFtl /\ InitCmd /\ InitCodec
    /\ ret = NoRet
    /\ addr_pc = "args"
    /\ addr_args \in Chips \X (0 .. MaxAddrBlock) \X (0 .. MaxAddrPage)
                       \X (0 .. SECTOR_MASK)
    /\ addr_pba = 0
    /\ addr_out = <<0, 0, 0, 0>>

AddrEncode ==
    /\ addr_pc = "args"
    /\ addr_pba' = encode_phys_addr(addr_args[1], addr_args[2], addr_args[3],
                                    addr_args[4])
    /\ addr_pc' = "encoded"
    /\ UNCHANGED <<envVars, bmVars, ftlVars, ret, addr_args, addr_out, cmdVars, codecVars, sim_hist>>

AddrDecode ==
    /\ addr_pc = "encoded"
    /\ addr_out' = decode_phys_addr(addr_pba)
    /\ addr_pc' = "decoded"
    /\ UNCHANGED <<envVars, bmVars, ftlVars, ret, addr_args, addr_pba, cmdVars, codecVars, sim_hist>>

NextAddr == AddrEncode \/ AddrDecode

SpecAddr == InitAddrCall /\ [][NextAddr]_vars

-----------------------------------------------------------------------------
(***************************************************************************)
(* rp2 bus driver (NandIo) and command layer (NandCommander).              *)
(* The pins are a record; every change of a pin is appended to log, the    *)
(* signal trace of the running command.  What the chip does (R/B#, the     *)
(* bytes it drives on IO) is an input of the call.                         *)
(***************************************************************************)
\* NandCmd
READ_ID == 144
READ_1ST == 0
READ_2ND == 48
ERASE_1ST == 96
ERASE_2ND == 208
STATUS_READ == 112
PROGRAM_1ST == 128
PROGRAM_2ND == 16
\* NandStatus
PROGRAM_ERASE_FAIL == 1

\* One pin operation, as an entry of the signal trace.
Ev(kind, v1, v2) == << <<kind, v1, v2>> >>

set_io(value)   == Ev("io", value, 0)
set_io_dir(out) == Ev("io_dir", IF out THEN 1 ELSE 0, 0)
\* variant: selecting chip 1 leaves CE#0 as it is
set_ceb_keeping_ceb0(cs_index) ==
    IF cs_index = NONE
    THEN Ev("ceb0", 1, 0) \o Ev("ceb1", 1, 0)
    ELSE IF cs_index = 0 THEN Ev("ceb0", 0, 0) \o Ev("ceb1", 1, 0)
    ELSE Ev("ceb1", 0, 0)

\* set_ceb(cs_index): CE#0 is written, then CE#1; None drives both high
set_ceb(cs_index) ==
    IF cs_index = NONE
    THEN Ev("ceb0", 1, 0) \o Ev("ceb1", 1, 0)
    ELSE Ev("ceb0", IF cs_index = 0 THEN 0 ELSE 1, 0)
         \o Ev("ceb1", IF cs_index = 1 THEN 0 ELSE 1, 0)
set_cle(v) == Ev("cle", v, 0)
set_ale(v) == Ev("ale", v, 0)
set_web(v) == Ev("web", v, 0)
set_reb(v) == Ev("reb", v, 0)
set_wpb(v) == Ev("wpb", v, 0)
delay      == Ev("delay", 0, 0)
\* get_io(): value is the byte the chip drives
get_io(value) == Ev("get_io", value, 0)

\* The level a pin is left at by a trace: that of the last operation on it, or
\* the level before.
Level(log, kind, field, before) ==
    LET on == {i \in 1 .. Len(log) : log[i][1] = kind}
    IN  IF on = {} THEN before
        ELSE log[CHOOSE i \in on : \A j \in on : j <= i][field]

\* The pins after a call that ran the trace log from pins b; ceb0_in, ceb1_in:
\* the CE# levels the call began with.
Drive(b, log) ==
    [io_dir |-> Level(log, "io_dir", 2, b.io_dir),
     io     |-> Level(log, "io", 2, b.io),
     ceb0   |-> Level(log, "ceb0", 2, b.ceb0),
     ceb1   |-> Level(log, "ceb1", 2, b.ceb1),
     ceb0_in |-> b.ceb0,
     ceb1_in |-> b.ceb1,
     cle    |-> Level(log, "cle", 2, b.cle),
     ale    |-> Level(log, "ale", 2, b.ale),
     wpb    |-> Level(log, "wpb", 2, b.wpb),
     web    |-> Level(log, "web", 2, b.web),
     reb    |-> Level(log, "reb", 2, b.reb),
     log    |-> log]

\* setup_pin, run by NandIo(keep_wp); io_dir 1 is output
setup_pin(keep_wp) ==
    Drive([io_dir |-> 1, io |-> 0, ceb0 |-> 1, ceb1 |-> 1, cle |-> 0, ale |-> 0,
           wpb |-> 0, web |-> 1, reb |-> 1, log |-> <<>>],
          set_wpb(IF keep_wp THEN 0 ELSE 1))

init_pin ==
    set_io_dir(TRUE) \o set_ceb(NONE) \o set_cle(0) \o set_ale(0) \o set_web(1)
    \o set_reb(1)

\* variant: CLE is lowered while WE# is still low
input_cmd_cle_early(cmd) ==
    set_io(cmd) \o set_cle(1) \o set_web(0) \o delay \o set_cle(0) \o set_web(1)

input_cmd(cmd) ==
    set_io(cmd) \o set_cle(1) \o set_web(0) \o delay \o set_web(1) \o set_cle(0)

RECURSIVE input_addrs(_)
input_addrs(addrs) ==
    IF addrs = <<>> THEN <<>>
    ELSE set_io(Head(addrs)) \o set_ale(1) \o set_web(0) \o delay \o set_web(1)
         \o set_ale(0) \o input_addrs(Tail(addrs))

input_addr(addr) == input_addrs(<<addr>>)

\* the byte loop of output_data; din: the bytes the chip drives while RE# is low
RECURSIVE output_bytes(_)
output_bytes(din) ==
    IF din = <<>> THEN <<>>
    ELSE set_reb(0) \o delay \o get_io(Head(din)) \o set_reb(1) \o delay
         \o output_bytes(Tail(din))

\* variant: the IO lines are left as inputs
output_data_left_input(din) == set_io_dir(FALSE) \o output_bytes(din)

\* output_data(num_bytes): the bytes returned are din
output_data(din) == set_io_dir(FALSE) \o output_bytes(din) \o set_io_dir(TRUE)

\* wait_busy(timeout_ms): True as soon as R/B# is high, False on the timeout
wait_busy(ready) == Ev("wait_busy", IF ready THEN 1 ELSE 0, 0)

\* the data input loop of program_page
RECURSIVE input_data(_)
input_data(data) ==
    IF data = <<>> THEN <<>>
    ELSE set_io(Head(data)) \o set_web(0) \o delay \o set_web(1)
         \o input_data(Tail(data))

create_nand_addr(block, page, col) ==
    << BitAnd(col, 255),
       BitAnd(ShiftR(col, 8), 255),
       BitOr(ShiftL(BitAnd(block, 3), 6), BitAnd(page, 63)),
       BitAnd(ShiftR(block, 2), 255) >>

create_block_addr(block) ==
    << BitAnd(block, 255), BitAnd(ShiftR(block, 8), 255) >>

\* Each command returns [log, ok, data]: the signal trace of the call, ok = FALSE
\* for None / False, data the bytes read.
cmd_read_id(cs_index, din) ==
    [log  |-> init_pin \o set_ceb(cs_index) \o input_cmd(READ_ID) \o input_addr(0)
              \o output_data(din) \o set_ceb(NONE),
     ok   |-> TRUE,
     data |-> din]

cmd_read_page(cs_index, block, page, col, ready, din) ==
    LET w == init_pin \o set_ceb(cs_index) \o input_cmd(READ_1ST)
             \o input_addrs(create_nand_addr(block, page, col))
             \o input_cmd(READ_2ND) \o wait_busy(ready)
    IN  IF ~ready THEN [log |-> w, ok |-> FALSE, data |-> <<>>]
        ELSE [log |-> w \o output_data(din) \o set_ceb(NONE), ok |-> TRUE,
              data |-> din]

cmd_read_status(cs_index, status) ==
    [log  |-> init_pin \o set_ceb(cs_index) \o input_cmd(STATUS_READ)
              \o output_data(<<status>>) \o set_ceb(NONE),
     ok   |-> TRUE,
     data |-> <<status>>]

\* variant: the status byte is read but not tested
cmd_finish_status_ignored(w, cs_index, ready, status) ==
    IF ~ready THEN [log |-> w, ok |-> FALSE, data |-> <<>>]
    ELSE LET st == cmd_read_status(cs_index, status)
         IN  [log |-> w \o set_ceb(NONE) \o st.log, ok |-> TRUE, data |-> st.data]

\* the tail erase_block and program_page share: timeout, else CE# release,
\* status read and the PROGRAM_ERASE_FAIL test
cmd_finish(w, cs_index, ready, status) ==
    IF ~ready THEN [log |-> w, ok |-> FALSE, data |-> <<>>]
    ELSE LET st == cmd_read_status(cs_index, status)
         IN  [log  |-> w \o set_ceb(NONE) \o st.log,
              ok   |-> BitAnd(st.data[1], PROGRAM_ERASE_FAIL) = 0,
              data |-> st.data]

cmd_erase_block(cs_index, block, ready, status) ==
    cmd_finish(init_pin \o set_ceb(cs_index) \o input_cmd(ERASE_1ST)
               \o input_addrs(create_block_addr(block)) \o input_cmd(ERASE_2ND)
               \o wait_busy(ready),
               cs_index, ready, status)

cmd_program_page(cs_index, block, page, data, col, ready, status) ==
    cmd_finish(init_pin \o set_ceb(cs_index) \o input_cmd(PROGRAM_1ST)
               \o input_addrs(create_nand_addr(block, page, col))
               \o input_data(data) \o input_cmd(PROGRAM_2ND) \o wait_busy(ready),
               cs_index, ready, status)

\* status bytes the chip answers: ready bits and WP# high, without and with
\* PROGRAM_ERASE_FAIL
StatusBytes == {224, 225}
IdBytes == {READ_ID_EXPECT, Fill(0, 5)}
PageBytes(n) == {Fill(FF, n)} \cup {Fill(d, n) : d \in DataBytes}

InitCmdLayer ==
    /\ driver = "rp2"
    /\ chips = Chips
    /\ nand = [c \in Chips |-> [b \in Blocks |-> [p \in Pages |-> NoPage]]]
    /\ file = NoFile
    /\ sim_hist = [a \in Chips \X Blocks \X Pages |-> <<>>]
    /\ InitBm /\ InitFtl /\ InitAddr /\ InitCodec
    /\ ret = NoRet
    /\ bus = setup_pin(FALSE)
    /\ cmd_ret = [op |-> "", cs |-> NONE, block |-> NONE, ok |-> TRUE, data |-> <<>>]
    /\ wait = [pc |-> "idle", timeout_ms |-> 0, elapsed |-> 0, rbb |-> 1,
               result |-> TRUE]

CmdReadId ==
    /\ \E cs \in Chips, din \in IdBytes :
         LET r == cmd_read_id(cs, din)
         IN  /\ bus' = Drive(bus, r.log)
             /\ cmd_ret' = [op |-> "read_id", cs |-> cs, block |-> NONE,
                            ok |-> r.ok, data |-> r.data]
    /\ UNCHANGED <<envVars, bmVars, ftlVars, ret, addrVars, codecVars, sim_hist, wait>>

CmdReadPage ==
    /\ \E cs \in Chips, block \in Blocks, page \in Pages, ready \in BOOLEAN,
          col \in {0, PAGE_USABLE_BYTES}, num_bytes \in {1, PAGE_ALL_BYTES} :
        \E din \in (IF ready THEN PageBytes(num_bytes) ELSE {<<>>}) :
         LET r == cmd_read_page(cs, block, page, col, ready, din)
         IN  /\ bus' = Drive(bus, r.log)
             /\ cmd_ret' = [op |-> "read_page", cs |-> cs, block |-> block,
                            ok |-> r.ok, data |-> r.data]
    /\ UNCHANGED <<envVars, bmVars, ftlVars, ret, addrVars, codecVars, sim_hist, wait>>

CmdReadStatus ==
    /\ \E cs \in Chips, status \in StatusBytes :
         LET r == cmd_read_status(cs, status)
         IN  /\ bus' = Drive(bus, r.log)
             /\ cmd_ret' = [op |-> "read_status", cs |-> cs, block |-> NONE,
                            ok |-> r.ok,
                            data |-> r.data]
    /\ UNCHANGED <<envVars, bmVars, ftlVars, ret, addrVars, codecVars, sim_hist, wait>>

CmdEraseBlock ==
    /\ \E cs \in Chips, block \in Blocks, ready \in BOOLEAN :
        \E status \in (IF ready THEN StatusBytes ELSE {NONE}) :
         LET r == cmd_erase_block(cs, block, ready, status)
         IN  /\ bus' = Drive(bus, r.log)
             /\ cmd_ret' = [op |-> "erase_block", cs |-> cs, block |-> block,
                            ok |-> r.ok,
                            data |-> r.data]
    /\ UNCHANGED <<envVars, bmVars, ftlVars, ret, addrVars, codecVars, sim_hist, wait>>

CmdProgramPage ==
    /\ \E cs \in Chips, block \in Blocks, page \in Pages, ready \in BOOLEAN,
          data \in PageBytes(PAGE_ALL_BYTES) :
        \E status \in (IF ready THEN StatusBytes ELSE {NONE}) :
         LET r == cmd_program_page(cs, block, page, data, 0, ready, status)
         IN  /\ bus' = Drive(bus, r.log)
             /\ cmd_ret' = [op |-> "program_page", cs |-> cs, block |-> block,
                            ok |-> r.ok,
                            data |-> r.data]
    /\ UNCHANGED <<envVars, bmVars, ftlVars, ret, addrVars, codecVars, sim_hist, wait>>

NextCmd == CmdReadId \/ CmdReadPage \/ CmdReadStatus \/ CmdEraseBlock \/ CmdProgramPage

SpecCmd == InitCmdLayer /\ [][NextCmd]_vars

-----------------------------------------------------------------------------
(***************************************************************************)
(* NandIo.wait_busy step by step.  The loop samples R/B# and, while it is  *)
(* low, the millisecond counter; the chip drives R/B#, the counter counts. *)
(***************************************************************************)
\* largest timeout_ms tried
MaxTimeout == 6

\* variant: the deadline test compares the wrong way round
timed_out_reversed(elapsed, timeout_ms) == elapsed < 0 - timeout_ms

\* time.ticks_diff(time.ticks_ms(), start) > timeout_ms
timed_out(elapsed, timeout_ms) == elapsed > timeout_ms

\* wait_busy(timeout_ms) is entered: start = time.ticks_ms()
WaitCall ==
    /\ wait.pc \in {"idle", "done"}
    /\ \E t \in 0 .. MaxTimeout :
         wait' = [wait EXCEPT !.pc = "loop", !.timeout_ms = t, !.elapsed = 0,
                              !.result = TRUE]
    /\ UNCHANGED <<envVars, bmVars, ftlVars, ret, addrVars, bus, cmd_ret, codecVars,
                   sim_hist>>

\* one pass of the while loop: True when R/B# is high, False when it is low
\* and the deadline has passed, else once more
WaitPoll ==
    /\ wait.pc = "loop"
    /\ wait' = IF wait.rbb # 0 THEN [wait EXCEPT !.pc = "done", !.result = TRUE]
               ELSE IF timed_out(wait.elapsed, wait.timeout_ms)
               THEN [wait EXCEPT !.pc = "done", !.result = FALSE]
               ELSE wait
    /\ UNCHANGED <<envVars, bmVars, ftlVars, ret, addrVars, bus, cmd_ret, codecVars,
                   sim_hist>>

\* a millisecond passes during the call; past the deadline further ticks make
\* no difference to the loop and are not counted
Tick ==
    /\ wait.pc = "loop" /\ wait.elapsed <= wait.timeout_ms
    /\ wait' = [wait EXCEPT !.elapsed = @ + 1]
    /\ UNCHANGED <<envVars, bmVars, ftlVars, ret, addrVars, bus, cmd_ret, codecVars,
                   sim_hist>>

\* the chip pulls R/B# low (busy) or releases it (ready)
RbbChange ==
    /\ wait' = [wait EXCEPT !.rbb = 1 - @]
    /\ UNCHANGED <<envVars, bmVars, ftlVars, ret, addrVars, bus, cmd_ret, codecVars,
                   sim_hist>>

NextWait == WaitCall \/ WaitPoll \/ Tick \/ RbbChange

\* the processor keeps running the loop and the millisecond counter keeps
\* counting; nothing is assumed about the chip
SpecWait ==
    InitCmdLayer /\ [][NextWait]_vars /\ WF_vars(WaitPoll) /\ WF_vars(Tick)

-----------------------------------------------------------------------------
(***************************************************************************)
(* PageCodec on its own: a payload is encoded, the codeword is stored, bits *)
(* of it may flip in storage, and it is decoded.                           *)
(***************************************************************************)
\* the codec implementations of the repository
CodecImpls == {"nand", "draft"}
\* byte values payloads are made of
PayloadBytes == {0, FF} \cup DataBytes
\* payloads: constant pages, and constant pages with one byte changed
CodecPayloads ==
    {[Fill(a, PAGE_USABLE_BYTES) EXCEPT ![i] = b] :
        a \in PayloadBytes, b \in PayloadBytes, i \in 1 .. PAGE_USABLE_BYTES}
\* bits of a byte that flip
FlipBits == {0, 3, 7}

\* byte b with bit k inverted
flip_bit(b, k) == IF (b \div 2^k) % 2 = 1 THEN b - 2^k ELSE b + 2^k

\* word with the bits at the positions flips (<<byte index from 0, bit>>) inverted
flip(word, flips) ==
    [i \in 1 .. Len(word) |->
        LET b3 == IF <<i - 1, 3>> \in flips THEN flip_bit(word[i], 3) ELSE word[i]
            b0 == IF <<i - 1, 0>> \in flips THEN flip_bit(b3, 0) ELSE b3
        IN  IF <<i - 1, 7>> \in flips THEN flip_bit(b0, 7) ELSE b0]

\* the sector a byte of the codeword's data area belongs to
sector_of(byte) == byte \div SECTOR_BYTES

\* one flipped bit anywhere, or two flipped bits inside one sector
FlipPatterns(word) ==
    LET pos == (0 .. Len(word) - 1) \X FlipBits
    IN  {{x} : x \in pos}
        \cup UNION {{{x, y} : y \in {z \in pos :
                                /\ z # x
                                /\ z[1] < PAGE_USABLE_BYTES /\ x[1] < PAGE_USABLE_BYTES
                                /\ sector_of(z[1]) = sector_of(x[1])}} : x \in pos}

InitCodecCall ==
    /\ InitEnv("sim")
    /\ InitBm /\ InitFtl /\ InitAddr /\ InitCmd
    /\ ret = NoRet
    /\ codec_pc = "payload"
    /\ codec_impl \in CodecImpls
    \* use_scramble, use_ecc, use_crc
    /\ codec_flags \in BOOLEAN \X BOOLEAN \X BOOLEAN
    /\ codec_in \in CodecPayloads
    /\ codec_word = <<>>
    /\ codec_flips = {}
    /\ codec_out = [ok |-> TRUE, data |-> <<>>]

\* codec.encode(codec_in)
CodecEncode ==
    /\ codec_pc = "payload"
    /\ codec_word' = IF codec_impl = "nand" THEN encode(codec_in)
                     ELSE draft_encode(codec_in)
    /\ codec_pc' = "stored"
    /\ UNCHANGED <<envVars, bmVars, ftlVars, ret, addrVars, cmdVars, codec_impl,
                   codec_flags, codec_in, codec_flips, codec_out, sim_hist>>

\* bits of the stored codeword flip
CodecFlip ==
    /\ codec_pc = "stored"
    /\ codec_flips = {}
    /\ \E flips \in FlipPatterns(codec_word) :
         /\ codec_flips' = flips
         /\ codec_word' = flip(codec_word, flips)
    /\ UNCHANGED <<envVars, bmVars, ftlVars, ret, addrVars, cmdVars, codec_pc,
                   codec_impl, codec_flags, codec_in, codec_out, sim_hist>>

\* codec.decode(codec_word)
CodecDecode ==
    /\ codec_pc = "stored"
    /\ codec_out' = IF codec_impl = "nand" THEN decode(codec_word)
                    ELSE draft_decode(codec_word)
    /\ codec_pc' = "decoded"
    /\ UNCHANGED <<envVars, bmVars, ftlVars, ret, addrVars, cmdVars, codec_impl,
                   codec_flags, codec_in, codec_word, codec_flips, sim_hist>>

NextCodec == CodecEncode \/ CodecFlip \/ CodecDecode

SpecCodec == InitCodecCall /\ [][NextCodec]_vars

-----------------------------------------------------------------------------
(***************************************************************************)
(* Properties                                                              *)
(***************************************************************************)
\* C2: in every state of a constructed block manager, every bad block is also
\* marked allocated: badblock_bitmaps[chip] is a subset of allocated_bitmaps[chip].
C2_BadSubsetOfAllocated ==
    bm = "ready" => \A c \in 1 .. num_chip : badblock_bitmaps[c] \subseteq allocated_bitmaps[c]

\* C3: while the block manager lives (any alloc or free call), a bad bit that is
\* set stays set, and a successful alloc never returns a block whose bad bit
\* was set when it was called.
C3_BadBlockSticky ==
    [][(bm = "ready" /\ bm' = "ready") =>
         /\ \A c \in 1 .. num_chip : badblock_bitmaps[c] \subseteq badblock_bitmaps'[c]
         /\ (ret'.op = "alloc" /\ ret'.exc = "")
              => ret'.block \notin badblock_bitmaps[ret'.cs + 1]]_vars

\* C3 witness: alloc returned a block although an earlier block, demoted to bad
\* by a failed erase, is neither allocated nor returned
C3_Witness ==
    /\ bm = "ready" /\ ret.op = "alloc" /\ ret.exc = ""
    /\ \E b \in badblock_bitmaps[ret.cs + 1] :
         b < ret.block /\ b \notin allocated_bitmaps[ret.cs + 1]
    /\ Len(ret.erased) = 1

\* C7: after a completed alloc or free that changed a bitmap, the persisted
\* record equals the in-memory num_chip, badblock_bitmaps and allocated_bitmaps.
C7_PersistedMatchesMemory ==
    (bm = "ready" /\ ret.op \in {"alloc", "free"} /\ ret.changed)
        => file = save_record(num_chip, badblock_bitmaps, allocated_bitmaps)

\* C9: free of a block whose bad bit is set is rejected with an error and the
\* block's allocated bit stays set.
C9_FreeBadBlockRejected ==
    (ret.op = "free" /\ ret.was_bad)
        => (ret.exc # "" /\ ret.block \in allocated_bitmaps[ret.cs + 1])

\* C10: free of a block whose allocated bit is clear raises 'Block Already Free'
\* and changes neither allocated_bitmaps nor badblock_bitmaps.
C10_FreeOfFreeBlockFatal ==
    [][(ret'.op = "free" /\ ~ret'.was_alloc) =>
         /\ ret'.exc = "Block Already Free"
         /\ UNCHANGED <<allocated_bitmaps, badblock_bitmaps>>]_vars

\* C10 witness: a free call on a block that was not allocated has raised
C10_Witness ==
    ret.op = "free" /\ ~ret.was_alloc /\ ret.exc = "Block Already Free"


\* C1: read_logical(lba) returns the payload of the most recent
\* write_logical(lba, d) call, before and after a flush.
C1_ReadAfterWrite ==
    (ret.op = "read_logical" /\ written[ret.lba] # <<>>)
        => ret.data = written[ret.lba]

\* C4: decode_phys_addr(encode_phys_addr(chip, block, page, sector)) is
\* (chip, block, page, sector) for every in-range address.
C4_PbaRoundTrip ==
    addr_pc = "decoded" => addr_out = addr_args

\* C5: alloc returns the pair (chip, block) of the block it erased and marked
\* allocated, and a write_logical call that had no cursor takes its cursor's
\* chip and block from that pair and completes.
C5_AllocReturnsPair ==
    (ret.op = "write_logical" /\ ret.value.kind # "none")
        => /\ ret.value.kind = "tuple"
           /\ ret.value.val = <<ret.cs, ret.block>>
           /\ ret.exc = ""
           /\ current_write_chip = ret.cs
           /\ current_write_block = ret.block

C6_CeDeassertedAfterCall ==
    cmd_ret.op # "" => (bus.ceb0 = 1 /\ bus.ceb1 = 1)


C15_CodecRoundTrip ==
    (codec_pc = "decoded" /\ codec_flips = {})
        => (codec_out.ok /\ codec_out.data = codec_in)

\* C15 witness: a payload with a byte that is neither 0 nor equal to its
\* neighbours was encoded and decoded, with all three flags off
C15_Witness ==
    /\ codec_pc = "decoded" /\ codec_flips = {}
    /\ codec_flags = <<FALSE, FALSE, FALSE>>
    /\ \E i \in 1 .. Len(codec_in) : codec_in[i] \notin {0, codec_in[1]}
    /\ codec_out.data = codec_in

\* C16: with ECC enabled, a codeword with one bit of its data area flipped
\* decodes to the original payload.
C16_SingleBitCorrected ==
    (/\ codec_pc = "decoded" /\ codec_flags[2]
     /\ \E x \in codec_flips : codec_flips = {x} /\ x[1] < PAGE_USABLE_BYTES)
        => (codec_out.ok /\ codec_out.data = codec_in)

\* C17: a codeword with two bits of one sector flipped decodes to None.
C17_DoubleBitDetected ==
    (/\ codec_pc = "decoded" /\ codec_flags[2] /\ codec_flags[3]
     /\ Cardinality(codec_flips) = 2)
        => ~codec_out.ok

\* C13: a write_logical call returns without raising; when it leaves LBAs in
\* the buffer it programs no page and returns True; when it empties the buffer
\* it programs exactly one page, and returns True exactly when that page now
\* holds the encoded write buffer.
C13_FlushAtomic ==
    ret.op = "write_logical" =>
        /\ ret.exc = ""
        /\ \/ /\ Len(write_buffer_lbas) > 0
              /\ ret.programmed = <<>>
              /\ ret.ok
           \/ /\ Len(write_buffer_lbas) = 0
              /\ Len(ret.programmed) = 1
              /\ LET at == ret.programmed[1]
                 IN  ret.ok = (nand[at[1]][at[2]][at[3]] = encode(write_buffer))

\* C18: an alloc call ends with a block or with 'No Free Block'; the blocks
\* whose erase it attempted are distinct, at most as many as were free, and
\* every one whose erase failed was not bad before the call and is bad after.
C18_AllocTerminates ==
    [][ret'.op = "alloc" =>
         LET e == ret'.erased
             failed == IF ret'.exc = "" THEN Len(e) - 1 ELSE Len(e)
         IN  /\ ret'.exc \in {"", "No Free Block"}
             /\ Len(e) <= Cardinality(FreeBlocks)
             /\ \A i, j \in 1 .. Len(e) : i # j => e[i] # e[j]
             /\ \A i \in 1 .. failed :
                  /\ e[i][2] \notin badblock_bitmaps[e[i][1] + 1]
                  /\ e[i][2] \in badblock_bitmaps'[e[i][1] + 1]]_vars

\* C18 witness: an alloc call whose first two erases failed has ended
C18_Witness ==
    ret.op = "alloc" /\ Len(ret.erased) >= 3 /\ ret.exc = ""

\* C19: free of the block the alloc call just before returned succeeds and
\* leaves allocated_bitmaps as it was when that alloc was called.
C19_AllocFreeRestores ==
    (ret.op = "free" /\ ret.undoes)
        => (ret.exc = "" /\ allocated_bitmaps = ret.before)

\* C19 witness: the block of the alloc just before was freed, and another
\* block was allocated all along
C19_Witness ==
    /\ ret.op = "free" /\ ret.undoes /\ ret.exc = ""
    /\ allocated_bitmaps[ret.cs + 1] \ badblock_bitmaps[ret.cs + 1] # {}

\* C20: alloc raises 'No Free Block' exactly when every block of every chip
\* was allocated when it was called or is bad when it ends, and then it leaves
\* allocated_bitmaps unchanged.
C20_NoFreeBlock ==
    [][ret'.op = "alloc" =>
         /\ (ret'.exc = "No Free Block") <=>
               (\A c \in 1 .. num_chip : \A b \in Blocks :
                   b \in allocated_bitmaps[c] \/ b \in badblock_bitmaps'[c])
         /\ (ret'.exc = "No Free Block") =>
               allocated_bitmaps' = allocated_bitmaps]_vars

\* C20 witness: alloc raised 'No Free Block' after demoting the last free
\* block in the same call
C20_Witness ==
    ret.op = "alloc" /\ ret.exc = "No Free Block" /\ Len(ret.erased) >= 1

\* C21: no I/O error on the allocator record leaves the block manager: a
\* constructor or save call never raises OSError, and a constructor call that
\* could not load or could not save the record ends with the block manager
\* constructed.
C21_PersistenceErrorsContained ==
    /\ ret.op \in {"init", "save"} => ret.exc # "OSError"
    /\ (ret.op = "init" /\ ret.exc \notin {"No Active CS", "BadBlock Check Error",
                                           "TypeError"})
          => bm = "ready"

\* C22: a read_logical call on a mapped LBA whose sector could not be read (the
\* page read timed out or decode returned None) returns something other than
\* the zero-filled sector an unmapped LBA reads as.
C22_ReadErrorSurfaced ==
    (ret.op = "read_logical" /\ ret.mapped /\ ~ret.ok) => ret.data # unmap_sector

\* C23: read_logical of an LBA that was never written returns SECTOR_BYTES zero
\* bytes and changes neither the L2P table, the write buffer, the buffer's LBA
\* list nor the write cursor.
C23_UnwrittenReadsZero ==
    [][(ret'.op = "read_logical" /\ written[ret'.lba] = <<>>)
          => /\ ret'.data = Fill(0, SECTOR_BYTES)
             /\ Len(ret'.data) = SECTOR_BYTES
             /\ UNCHANGED <<l2p, write_buffer, write_buffer_lbas, current_write_chip,
                            current_write_block, current_write_page,
                            current_write_sector>>]_vars

\* a never-written LBA was read after another LBA had been written
C23_Witness ==
    /\ ret.op = "read_logical" /\ written[ret.lba] = <<>>
    /\ \E l \in LBAs : written[l] # <<>>
    /\ ret.data = Fill(0, SECTOR_BYTES)

\* C24: the signal trace of every command-layer call begins with init_pin and
\* the selection of the call's chip, latches the call's first command exactly
\* once (no command cycle is issued again after a timeout or a failing status)
\* and ends with the deselection of both chips.
C24_CommandTemplate ==
    cmd_ret.op # "" =>
        LET log == bus.log
            first == CASE cmd_ret.op = "read_id"      -> READ_ID
                       [] cmd_ret.op = "read_page"    -> READ_1ST
                       [] cmd_ret.op = "read_status"  -> STATUS_READ
                       [] cmd_ret.op = "erase_block"  -> ERASE_1ST
                       [] cmd_ret.op = "program_page" -> PROGRAM_1ST
            latched == {i \in 2 .. Len(log) :
                          log[i] = <<"cle", 1, 0>> /\ log[i - 1] = <<"io", first, 0>>}
            prefix == init_pin \o set_ceb(cmd_ret.cs)
        IN  /\ Len(log) > Len(prefix)
            /\ SubSeq(log, 1, Len(prefix)) = prefix
            /\ Cardinality(latched) = 1
            /\ SubSeq(log, Len(log) - 1, Len(log)) = set_ceb(NONE)

\* C25: in the signal trace of a command-layer call every command and address
\* byte cycle is, with nothing in between: the byte on IO, CLE (respectively
\* ALE) high, WE# low, delay, WE# high, CLE (respectively ALE) low; and every
\* data byte read is sampled after RE# fell and before RE# rises again.
C25_BusCycleOrder ==
    cmd_ret.op # "" =>
        LET log == bus.log
            reb_at == {i \in 1 .. Len(log) : log[i][1] = "reb"}
        IN  /\ \A i \in 1 .. Len(log) :
                 (log[i][1] \in {"cle", "ale"} /\ log[i][2] = 1) =>
                     /\ i > 1 /\ log[i - 1][1] = "io"
                     /\ i + 4 <= Len(log)
                     /\ log[i + 1] = <<"web", 0, 0>>
                     /\ log[i + 2] = <<"delay", 0, 0>>
                     /\ log[i + 3] = <<"web", 1, 0>>
                     /\ log[i + 4] = <<log[i][1], 0, 0>>
            /\ \A i \in 1 .. Len(log) :
                 log[i][1] = "get_io" =>
                     /\ \E j \in reb_at :
                          /\ j < i /\ log[j][2] = 0
                          /\ \A k \in reb_at : ~(j < k /\ k < i)
                     /\ \E j \in reb_at :
                          /\ j > i /\ log[j][2] = 1
                          /\ \A k \in reb_at : ~(i < k /\ k < j)

\* a page read that latched two commands and four address bytes and read a
\* whole page
C25_Witness ==
    /\ cmd_ret.op = "read_page" /\ cmd_ret.ok
    /\ Len(cmd_ret.data) = PAGE_ALL_BYTES
    /\ Cardinality({i \in 1 .. Len(bus.log) : bus.log[i] = <<"cle", 1, 0>>}) = 2
    /\ Cardinality({i \in 1 .. Len(bus.log) : bus.log[i] = <<"ale", 1, 0>>}) = 4
    /\ Cardinality({i \in 1 .. Len(bus.log) : bus.log[i][1] = "get_io"})
         = PAGE_ALL_BYTES

C27_ReadsLatestBufferedWrite ==
    (ret.op = "read_logical" /\ ret.rewritten) => ret.data = written[ret.lba]

\* C28: the block a successful alloc call ends on and returns the number of was
\* free (neither allocated nor bad) when alloc was called, its erase succeeded
\* and it is now allocated; every block that was free at call time and comes
\* before it (chips ascending, then blocks ascending) was erased without success
\* by the call and is now bad; no block after it was erased by the call.
C28_AllocFirstErasable ==
    [][(ret'.op = "alloc" /\ ret'.exc = "") =>
         LET chosen == <<ret'.cs, ret'.block>>
             e == ret'.erased
             failed == {e[i] : i \in 1 .. Len(e) - 1}
             before(x, y) == x[1] < y[1] \/ (x[1] = y[1] /\ x[2] < y[2])
         IN  /\ chosen \in FreeBlocks
             /\ ret'.value.val = chosen[2]
             /\ e # <<>> /\ e[Len(e)] = chosen /\ chosen \notin failed
             /\ \A p \in Pages :
                  read_page(nand', chosen[1], chosen[2], p, 0, PAGE_ALL_BYTES, TRUE).data
                      = Fill(FF, PAGE_ALL_BYTES)
             /\ chosen[2] \in allocated_bitmaps'[chosen[1] + 1]
             /\ chosen[2] \notin badblock_bitmaps'[chosen[1] + 1]
             /\ \A cb \in FreeBlocks :
                  /\ before(cb, chosen) =>
                        (cb \in failed /\ cb[2] \in badblock_bitmaps'[cb[1] + 1])
                  /\ before(chosen, cb) =>
                        /\ cb \notin failed
                        /\ nand'[cb[1]][cb[2]] = nand[cb[1]][cb[2]]
                        /\ cb[2] \notin badblock_bitmaps'[cb[1] + 1]
                        /\ cb[2] \notin allocated_bitmaps'[cb[1] + 1]]_vars

\* C28 witness: alloc returned a block after an erase of an earlier free block
\* had failed, and a free block after the returned one is left
C28_Witness ==
    /\ ret.op = "alloc" /\ ret.exc = "" /\ Len(ret.erased) >= 2
    /\ \E cb \in FreeBlocks :
          ret.cs < cb[1] \/ (ret.cs = cb[1] /\ ret.block < cb[2])

\* C29: a constructor call that initialised by scanning leaves num_chip at the
\* number of consecutive chips, from chip 0, whose read_id answer is
\* 98 F1 80 15 72, and raises 'No Active CS' exactly when that number is zero.
C29_ScanCountsChips ==
    (ret.op = "init" /\ ~ret.loaded) =>
        LET n == IF read_id(0) # <<152, 241, 128, 21, 114>> THEN 0
                 ELSE IF read_id(1) # <<152, 241, 128, 21, 114>> THEN 1
                 ELSE 2
        IN  /\ (ret.exc = "No Active CS") <=> (n = 0)
            /\ n > 0 => num_chip = n

\* C30: a constructor call that initialised by scanning raises 'BadBlock Check
\* Error' exactly when a page read of the scan failed, and then no chip after
\* the one with the failed read was scanned; a scan that went through has
\* marked bad exactly the blocks whose page 0 begins with a byte other than
\* 0xFF and has left allocated_bitmaps[c] = badblock_bitmaps[c] for every chip.
C30_ScanMarksBadBlocks ==
    (ret.op = "init" /\ ~ret.loaded) =>
        LET marked(c) == {b \in Blocks : /\ nand[c][b][0] # NoPage
                                         /\ nand[c][b][0][1] # 255}
        IN  /\ (ret.exc = "BadBlock Check Error") <=> (ret.scan_failed[1] # NONE)
            /\ ret.exc = "BadBlock Check Error" =>
                  /\ Len(badblock_bitmaps) = ret.scan_failed[1] + 1
                  /\ \A c \in 1 .. ret.scan_failed[1] :
                       badblock_bitmaps[c] = marked(c - 1)
            /\ ret.exc \in {"", "OSError"} =>
                  /\ Len(badblock_bitmaps) = num_chip
                  /\ Len(allocated_bitmaps) = num_chip
                  /\ \A c \in 1 .. num_chip :
                       /\ badblock_bitmaps[c] = marked(c - 1)
                       /\ allocated_bitmaps[c] = badblock_bitmaps[c]

\* C30 witness: a scan of two chips went through and found a marked block
C30_Witness ==
    /\ ret.op = "init" /\ ~ret.loaded /\ ret.exc = "" /\ num_chip = 2
    /\ \E c \in 1 .. num_chip : badblock_bitmaps[c] # {}
    /\ allocated_bitmaps = badblock_bitmaps

\* C31: erase_block and program_page return True exactly when wait_busy
\* succeeded and the status byte read afterwards has bit 0 clear; read_page
\* returns data exactly when wait_busy succeeded; after a wait_busy timeout the
\* call issues nothing more: no status read and no data cycle.
C31_ResultFollowsReadyAndStatus ==
    cmd_ret.op \in {"erase_block", "program_page", "read_page"} =>
        LET log == bus.log
            waits == {i \in 1 .. Len(log) : log[i][1] = "wait_busy"}
            reads == {i \in 1 .. Len(log) : log[i][1] = "get_io"}
        IN  /\ Cardinality(waits) = 1
            /\ \A w \in waits :
                 /\ \A i \in reads : i > w
                 /\ log[w][2] = 0 => (w = Len(log) /\ reads = {})
                 /\ cmd_ret.op = "read_page" =>
                       /\ cmd_ret.ok <=> (log[w][2] = 1)
                       /\ cmd_ret.ok => cmd_ret.data = [k \in 1 .. Cardinality(reads) |->
                              log[CHOOSE i \in reads :
                                      Cardinality({j \in reads : j <= i}) = k][2]]
                       /\ cmd_ret.ok => reads # {}
                 /\ cmd_ret.op \in {"erase_block", "program_page"} =>
                       /\ log[w][2] = 1 =>
                             /\ Cardinality(reads) = 1
                             /\ \E i \in 2 .. Len(log) :
                                  /\ i > w /\ log[i] = <<"cle", 1, 0>>
                                  /\ log[i - 1] = <<"io", 112, 0>>
                                  /\ \A r \in reads : i < r
                       /\ cmd_ret.ok <=>
                             /\ log[w][2] = 1
                             /\ \A r \in reads : log[r][2] % 2 = 0

\* C31 witness: a program_page call whose wait succeeded returned False
\* because the status byte has PROGRAM_ERASE_FAIL set
C31_Witness ==
    /\ cmd_ret.op = "program_page" /\ ~cmd_ret.ok
    /\ \E i \in 1 .. Len(bus.log) : bus.log[i] = <<"wait_busy", 1, 0>>
    /\ cmd_ret.data = <<225>>

\* C32: a write_logical call that found the cursor undefined and got a block
\* from alloc leaves the cursor defined on that block, at page 0 and one sector
\* further, with its LBA the only one in the buffer's LBA list; a call that
\* found the cursor defined does not call alloc.
C32_CursorSetFromAlloc ==
    [][ret'.op = "write_logical" =>
         /\ CursorDefined => ret'.value = NoValue
         /\ (~CursorDefined /\ ret'.value # NoValue) =>
               /\ current_write_chip' = ret'.cs
               /\ current_write_block' = ret'.block
               /\ current_write_page' = 0
               /\ current_write_sector' = 1
               /\ write_buffer_lbas' = <<ret'.lba>>]_vars

\* C33: at no point of a command-layer call, the points between the two pin
\* writes of set_ceb included, are both CE# lines low; set_ceb(c) leaves
\* exactly CE#[c] low and set_ceb(None) leaves both high.
C33_AtMostOneChipEnabled ==
    /\ \A i \in 0 .. Len(bus.log) :
         ~(/\ Level(SubSeq(bus.log, 1, i), "ceb0", 2, bus.ceb0_in) = 0
           /\ Level(SubSeq(bus.log, 1, i), "ceb1", 2, bus.ceb1_in) = 0)
    /\ \A c \in Chips :
         /\ Drive(bus, set_ceb(c)).ceb0 = (IF c = 0 THEN 0 ELSE 1)
         /\ Drive(bus, set_ceb(c)).ceb1 = (IF c = 1 THEN 0 ELSE 1)
    /\ Drive(bus, set_ceb(NONE)).ceb0 = 1
    /\ Drive(bus, set_ceb(NONE)).ceb1 = 1

\* C33 witness: a call on chip 1 began while chip 0 was still selected (the
\* call before had timed out) and ended with chip 1 selected
C33_Witness ==
    /\ cmd_ret.op # "" /\ cmd_ret.cs = 1
    /\ bus.ceb0_in = 0 /\ bus.ceb1_in = 1
    /\ bus.ceb0 = 1 /\ bus.ceb1 = 0

\* C34: in the signal trace of a command-layer call every switch of the IO
\* lines to input is followed by a switch back to output with no CE# write and
\* no WE# low in between; the IO lines are outputs when the call has returned
\* and at every point where WE# is driven low.
C34_IoDirectionRestored ==
    cmd_ret.op # "" =>
        LET log == bus.log
            dirs == {i \in 1 .. Len(log) : log[i][1] = "io_dir"}
        IN  /\ bus.io_dir = 1
            /\ \A i \in dirs :
                 log[i][2] = 0 =>
                     \E j \in dirs :
                        /\ j > i /\ log[j][2] = 1
                        /\ \A k \in i + 1 .. j - 1 :
                             /\ log[k][1] \notin {"ceb0", "ceb1", "io_dir", "io"}
                             /\ log[k] # <<"web", 0, 0>>
            /\ \A w \in 1 .. Len(log) :
                 log[w] = <<"web", 0, 0>> =>
                     \E i \in dirs :
                        /\ i < w /\ log[i][2] = 1
                        /\ \A k \in dirs : ~(i < k /\ k < w)

\* C34 witness: a program_page call read the status byte (IO lines switched
\* to input and back) after it had driven WE# low for data bytes
C34_Witness ==
    /\ cmd_ret.op = "program_page" /\ cmd_ret.data # <<>>
    /\ \E i \in 1 .. Len(bus.log) : bus.log[i] = <<"io_dir", 0, 0>>
    /\ bus.io_dir = 1

\* C35: wait_busy always returns: True from a pass that sampled R/B# high,
\* False only from a pass that sampled it low with more than timeout_ms
\* elapsed; a call in progress eventually returns, also when R/B# stays low
\* for ever.
C35_WaitBusyTerminates ==
    /\ [][(wait.pc = "loop" /\ wait'.pc = "done") =>
            /\ wait'.result <=> (wait.rbb = 1)
            /\ ~wait'.result => wait.elapsed > wait.timeout_ms]_vars
    /\ [][(wait.pc = "loop" /\ wait'.pc = "loop" /\ wait'.rbb = wait.rbb
            /\ wait'.elapsed = wait.elapsed) =>
              (wait.rbb = 0 /\ wait.elapsed <= wait.timeout_ms)]_vars
    /\ (wait.pc = "loop") ~> (wait.pc = "done")

\* C35 witness: a call with a non-zero timeout returned False with R/B# low
C35_Witness ==
    /\ wait.pc = "done" /\ ~wait.result /\ wait.rbb = 0
    /\ wait.timeout_ms > 0 /\ wait.elapsed = wait.timeout_ms + 1

\* C38: the two address bytes erase_block puts on the bus for block b are the
\* row-address bytes (third and fourth address byte) that read_page and
\* program_page send for page 0 of block b.
C38_EraseAddressesSameBlock ==
    cmd_ret.op = "erase_block" =>
        LET row == SubSeq(create_nand_addr(cmd_ret.block, 0, 0), 3, 4)
            sent == init_pin \o set_ceb(cmd_ret.cs) \o input_cmd(ERASE_1ST)
                    \o input_addrs(row)
        IN  SubSeq(bus.log, 1, Len(sent)) = sent

\* C39: a block that alloc erased and whose page 0 the FTL then programmed
\* with user data is not marked bad by the scan of the next initialization,
\* whatever the first byte of the data.
C39_UserBlockNotMarkedBad ==
    (/\ ret.op = "ftl_init" /\ ret.exc = "" /\ ~ret.loaded
     /\ ret.before_off # <<>> /\ ret.before_off[3] = 0
     /\ ret.before_off[1] < num_chip) =>
        ret.before_off[2] \notin badblock_bitmaps[ret.before_off[1] + 1]

\* C40: alloc never raises 'Block Already Allocated': the block it passes to
\* _mark_alloc has its allocated bit clear in the bitmaps alloc started from.
C40_AllocNeverHitsAllocated ==
    ret.op = "alloc" =>
        /\ ret.exc # "Block Already Allocated"
        /\ ret.exc = "" => ret.block \notin ret.before[ret.cs + 1]

\* an alloc that succeeded on a chip where other blocks were allocated already
C40_Witness ==
    /\ ret.op = "alloc" /\ ret.exc = ""
    /\ ret.before[ret.cs + 1] # {}
    /\ ret.block \in allocated_bitmaps[ret.cs + 1]

=============================================================================
